---- MODULE Spec2Model ----
(***************************************************************************)
(* Model of sonnet.py: read_file -> create_database -> do_markov ->        *)
(* db_stats, as the __main__ block runs them, with the corpus, the chain   *)
(* length and the number of lines drawn from small sets.                   *)
(*                                                                         *)
(* A string is a sequence of one-character strings; a word (token) is a    *)
(* non-empty string, and a word carries the line-break marker when its     *)
(* last character is "\n".                                                 *)
(***************************************************************************)
EXTENDS Integers, Sequences, FiniteSets

VARIABLES
  file,          \* the lines f.readlines() returns
  chain_length,  \* do_markov / create_database parameter
  size,          \* do_markov parameter: number of lines to generate
  pc,            \* position of the program
  words,         \* result of read_file
  db,            \* result of create_database
  start,         \* do_markov local: the current window
  generated,     \* do_markov local: the accumulator
  current,       \* do_markov local: completed-line counter
  next_word,     \* do_markov local: last sampled word (NoWord = unbound)
  output,        \* the string do_markov returns
  err,           \* the exception that ended the program, if any
  stats,         \* the values db_stats reports
  iters,         \* history: main-loop iterations begun
  retries,       \* history: random_word calls of the current iteration's retry loop
  seed,          \* history: offset of the last random_word call while start is still that window, else -1
  seed0,         \* history: offset of the initial random_word call
  missed,        \* history: some lookup raised KeyError
  branched       \* history: some visited context had more than one successor

vars == <<file, chain_length, size, pc, words, db, start, generated, current,
          next_word, output, err, stats, iters, retries, seed, seed0, missed, branched>>

----------------------------------------------------------------------------
(* Bounds *)
MaxLines == 2    \* lines in the corpus file
MaxOrder == 3    \* largest chain length
MaxSize  == 2    \* largest number of lines asked for
MaxGen   == 7    \* longest accumulator followed
MaxRetries == 3  \* random_word calls followed within one retry loop

MaxLiveLines == 1  \* lines in the corpus file, for LiveSpec

(* sys.maxint *)
maxint == 2147483647

----------------------------------------------------------------------------
(* The corpus lines *)
the == <<"t","h","e">>
cat == <<"c","a","t">>
sat == <<"s","a","t">>
dog == <<"d","o","g">>
ran == <<"r","a","n">>
sp  == <<" ">>
nl  == <<"\n">>

LinePool ==
  { the \o sp \o cat \o sp \o sat \o nl,          \* "the cat sat\n"
    the \o sp \o dog \o sp \o ran \o nl,          \* "the dog ran\n"
    sp \o the \o sp \o sp \o the \o <<"\t">> \o cat \o sp \o nl,  \* " the  the\tcat \n"
    the \o sp \o cat \o nl,                       \* "the cat\n"
    cat \o nl,                                    \* "cat\n"
    nl }                                          \* "\n"

SeqsUpTo(S, n) == UNION { [1..m -> S] : m \in 0..n }

Files == SeqsUpTo(LinePool, MaxLines)

Min(a, b) == IF a < b THEN a ELSE b
Max(a, b) == IF a > b THEN a ELSE b

NoWord == <<>>
NoDb   == [c \in {} |-> <<>>]

----------------------------------------------------------------------------
(* Python primitives *)

\* seq[a:b] for 0 <= a
Slice(s, a, b) == SubSeq(s, a + 1, Min(b, Len(s)))

IsSpace(c) == c \in {" ", "\n", "\t", "\r", "\f"}

\* str.split() with no separator
RECURSIVE split_from(_, _, _, _)
split_from(line, i, cur, acc) ==
  IF i > Len(line)
  THEN IF cur = <<>> THEN acc ELSE Append(acc, cur)
  ELSE IF IsSpace(line[i])
       THEN split_from(line, i + 1, <<>>, IF cur = <<>> THEN acc ELSE Append(acc, cur))
       ELSE split_from(line, i + 1, Append(cur, line[i]), acc)

split(line) == split_from(line, 1, <<>>, <<>>)

\* word.endswith('\n')
endswith_nl(w) == Len(w) > 0 /\ w[Len(w)] = "\n"

\* ' '.join(ws)
RECURSIVE join(_)
join(ws) ==
  IF ws = <<>> THEN <<>>
  ELSE IF Len(ws) = 1 THEN ws[1]
  ELSE ws[1] \o sp \o join(Tail(ws))

\* the most sub-tokens a line of LinePool has
MaxWordsPerLine ==
  CHOOSE n \in 0..16 : /\ \A l \in LinePool : Len(split(l)) <= n
                       /\ \E l \in LinePool : Len(split(l)) = n

\* the longest successor list of a file, the largest window offset of a LiveSpec file
MaxBranch == MaxLines * MaxWordsPerLine
MaxOffset == MaxLiveLines * MaxWordsPerLine - 2

----------------------------------------------------------------------------
(* read_file *)

QualifiesAny(tmp) == Len(tmp) > 0

\* if len(tmp) > 1
Qualifies(tmp) == Len(tmp) > 1

\* tmp[-1] = tmp[-1] + '\n'
MarkLast(tmp) == [tmp EXCEPT ![Len(tmp)] = @ \o nl]

RECURSIVE read_lines(_, _, _)
read_lines(lines, i, ws) ==
  IF i > Len(lines) THEN ws
  ELSE LET tmp == split(lines[i])
       IN  read_lines(lines, i + 1,
                      IF Qualifies(tmp) THEN ws \o MarkLast(tmp) ELSE ws)

read_file(lines) == read_lines(lines, 1, <<>>)

----------------------------------------------------------------------------
(* generate_chain, create_database *)

ChainCountShort(ws, k) == Max(0, Len(ws) - k)

\* range(len(words) - chain_length + 1)
ChainCount(ws, k) == Max(0, Len(ws) - k + 1)

\* the chains in the order they are yielded
generate_chain(ws, k) == [n \in 1..ChainCount(ws, k) |-> Slice(ws, n - 1, n - 1 + k)]

InsertOverwrite(d, chain) ==
  LET key == SubSeq(chain, 1, Len(chain) - 1)
      nxt == chain[Len(chain)]
  IN  [c \in DOMAIN d \cup {key} |-> IF c = key THEN <<nxt>> ELSE d[c]]

\* one iteration of the loop body of create_database
Insert(d, chain) ==
  LET key == SubSeq(chain, 1, Len(chain) - 1)
      nxt == chain[Len(chain)]
  IN  IF key \in DOMAIN d
      THEN [d EXCEPT ![key] = Append(@, nxt)]
      ELSE [c \in DOMAIN d \cup {key} |-> IF c = key THEN <<nxt>> ELSE d[c]]

RECURSIVE insert_all(_, _, _)
insert_all(d, chains, n) ==
  IF n > Len(chains) THEN d ELSE insert_all(Insert(d, chains[n]), chains, n + 1)

create_database(ws, k) == insert_all(NoDb, generate_chain(ws, k), 1)

----------------------------------------------------------------------------
Init ==
  /\ file \in Files
  /\ chain_length \in 2..MaxOrder
  /\ size \in 0..MaxSize
  /\ pc = "read"
  /\ words = <<>>
  /\ db = NoDb
  /\ start = <<>>
  /\ generated = <<>>
  /\ current = 0
  /\ next_word = NoWord
  /\ output = <<>>
  /\ err = "none"
  /\ stats = [num_keys |-> 0]
  /\ iters = 0
  /\ retries = 0
  /\ seed = -1
  /\ seed0 = -1
  /\ missed = FALSE
  /\ branched = FALSE

\* words = read_file(...)
ReadFile ==
  /\ pc = "read"
  /\ words' = read_file(file)
  /\ pc' = "create"
  /\ UNCHANGED <<file, chain_length, size, db, start, generated, current, next_word,
                 output, err, stats, iters, retries, seed, seed0, missed, branched>>

\* db = create_database(words, chain_length)
CreateDatabase ==
  /\ pc = "create"
  /\ db' = create_database(words, chain_length)
  /\ pc' = "markov"
  /\ UNCHANGED <<file, chain_length, size, words, start, generated, current, next_word,
                 output, err, stats, iters, retries, seed, seed0, missed, branched>>

----------------------------------------------------------------------------
(* do_markov *)

SeedRangeWide(ws, k) == 0..(Len(ws) - k + 1)

\* the values random.randint(0, len(words)-chain_length) can return;
\* randint raises ValueError when there is none
SeedRange(ws, k) == 0..(Len(ws) - k)

WindowFull(ws, k, s) == Slice(ws, s, s + k)

\* words[seed:seed + chain_length - 1]
Window(ws, k, s) == Slice(ws, s, s + k - 1)

FinalAccumulatorDropped(g, w) == g

\* generated.append(next_word)
FinalAccumulator(g, w) == Append(g, w)

\* start = random_word(); generated = []; current = 0
Begin ==
  /\ pc = "markov"
  /\ IF SeedRange(words, chain_length) = {}
     THEN /\ pc' = "error"
          /\ err' = "ValueError"
          /\ UNCHANGED <<start, seed, seed0>>
     ELSE /\ \E s \in SeedRange(words, chain_length) :
               /\ start' = Window(words, chain_length, s)
               /\ seed' = s
               /\ seed0' = s
          /\ pc' = "loop"
          /\ err' = err
  /\ generated' = <<>>
  /\ current' = 0
  /\ UNCHANGED <<file, chain_length, size, words, db, next_word, output, stats,
                 iters, retries, missed, branched>>

\* while current < size: generated.append(start[0])
Emit ==
  /\ pc = "loop"
  /\ current < size
  /\ Len(generated) < MaxGen
  /\ generated' = Append(generated, start[1])
  /\ iters' = iters + 1
  /\ retries' = 0
  /\ pc' = "lookup"
  /\ UNCHANGED <<file, chain_length, size, words, db, start, current, next_word,
                 output, err, stats, seed, seed0, missed, branched>>

\* the same step once the accumulator is longer than the model follows:
\* the accumulator and the iteration count are no longer recorded
EmitBeyond ==
  /\ pc = "loop"
  /\ current < size
  /\ Len(generated) >= MaxGen
  /\ retries' = 0
  /\ pc' = "lookup"
  /\ UNCHANGED <<file, chain_length, size, words, db, start, generated, current,
                 next_word, output, err, stats, iters, seed, seed0, missed, branched>>

\* next_word = random.choice(db[tuple(start)]) picks the j-th successor;
\* start = start[1:]; start.append(next_word); count the line
Sample(j) ==
  /\ pc = "lookup"
  /\ start \in DOMAIN db
  /\ j \in 1..Len(db[start])
  /\ next_word' = db[start][j]
  /\ start' = Append(Tail(start), db[start][j])
  /\ current' = IF endswith_nl(db[start][j]) THEN current + 1 ELSE current
  /\ branched' = (branched \/ Len(db[start]) > 1)
  /\ seed' = -1
  /\ pc' = "loop"
  /\ UNCHANGED <<file, chain_length, size, words, db, generated, output, err, stats,
                 iters, retries, seed0, missed>>

\* the draw, at the window found at offset i of words, of the successor
\* recorded last for that window
SampleLastAt(i) ==
  /\ start = Window(words, chain_length, i)
  /\ start \in DOMAIN db
  /\ Sample(Len(db[start]))

\* except KeyError: start = random_word()
Restart ==
  /\ pc = "lookup"
  /\ start \notin DOMAIN db
  /\ retries < MaxRetries
  /\ missed' = TRUE
  /\ retries' = retries + 1
  /\ IF SeedRange(words, chain_length) = {}
     THEN /\ pc' = "error"
          /\ err' = "ValueError"
          /\ UNCHANGED <<start, seed>>
     ELSE /\ \E s \in SeedRange(words, chain_length) :
               /\ start' = Window(words, chain_length, s)
               /\ seed' = s
          /\ UNCHANGED <<pc, err>>
  /\ UNCHANGED <<file, chain_length, size, words, db, generated, current, next_word,
                 output, stats, iters, seed0, branched>>

\* loop exit: generated.append(next_word); return ' '.join(generated)
Finish ==
  /\ pc = "loop"
  /\ ~(current < size)
  /\ IF next_word = NoWord
     THEN /\ pc' = "error"
          /\ err' = "UnboundLocalError"
          /\ UNCHANGED <<generated, output>>
     ELSE /\ generated' = FinalAccumulator(generated, next_word)
          /\ output' = join(generated')
          /\ pc' = "stats"
          /\ err' = err
  /\ UNCHANGED <<file, chain_length, size, words, db, start, current, next_word,
                 stats, iters, retries, seed, seed0, missed, branched>>

----------------------------------------------------------------------------
(* db_stats; a float is kept as the exact fraction <<numerator, denominator>> *)

RatEq(a, b) == a[1] * b[2] = b[1] * a[2]

\* the first loop over the keys
RECURSIVE options_loop(_, _, _)
options_loop(d, keys, acc) ==
  IF keys = {} THEN acc
  ELSE LET key == CHOOSE x \in keys : TRUE
           tmp_len == Len(d[key])
       IN  options_loop(d, keys \ {key},
             [num_options |-> acc.num_options + tmp_len,
              max_len |-> IF tmp_len > acc.max_len THEN tmp_len ELSE acc.max_len,
              min_len |-> IF tmp_len < acc.min_len THEN tmp_len ELSE acc.min_len])

\* the second loop: the numerator of sum_squares over the denominator num_keys^2,
\* (len - num_options/num_keys)^2 = (len*num_keys - num_options)^2 / num_keys^2
RECURSIVE squares_loop(_, _, _, _, _)
squares_loop(d, keys, num_keys, num_options, acc) ==
  IF keys = {} THEN acc
  ELSE LET key == CHOOSE x \in keys : TRUE
           diff == (Len(d[key]) * num_keys - num_options) * (Len(d[key]) * num_keys - num_options)
       IN  squares_loop(d, keys \ {key}, num_keys, num_options, acc + diff)

StdArgDivided(sum_squares, num_keys) == <<sum_squares[1], sum_squares[2] * num_keys>>

\* the argument of math.sqrt in the "Standard Deviation" line
StdArg(sum_squares, num_keys) == sum_squares

db_stats(d) ==
  LET num_keys == Cardinality(DOMAIN d)
      first == options_loop(d, DOMAIN d, [num_options |-> 0, max_len |-> 0, min_len |-> maxint])
      sum_squares == <<squares_loop(d, DOMAIN d, num_keys, first.num_options, 0), num_keys * num_keys>>
  IN  [num_keys |-> num_keys,
       avg_options |-> <<first.num_options, num_keys>>,
       min_len |-> first.min_len,
       max_len |-> first.max_len,
       sum_squares |-> sum_squares,
       std_squared |-> StdArg(sum_squares, num_keys)]

\* db_stats(db)
DbStats ==
  /\ pc = "stats"
  /\ IF Cardinality(DOMAIN db) = 0
     THEN /\ pc' = "error"
          /\ err' = "ZeroDivisionError"
          /\ stats' = stats
     ELSE /\ stats' = db_stats(db)
          /\ pc' = "done"
          /\ err' = err
  /\ UNCHANGED <<file, chain_length, size, words, db, start, generated, current,
                 next_word, output, iters, retries, seed, seed0, missed, branched>>

----------------------------------------------------------------------------
Next ==
  \/ ReadFile
  \/ CreateDatabase
  \/ Begin
  \/ Emit
  \/ \E j \in 1..MaxBranch : Sample(j)
  \/ Restart
  \/ Finish
  \/ DbStats

LiveNext == Next \/ EmitBeyond


Spec == Init /\ [][Next]_vars

\* the program keeps running, and an outcome of random.choice that is
\* possible infinitely often is drawn infinitely often (used here for the
\* last successor of each window)
LiveInit == Init /\ Len(file) <= MaxLiveLines

LiveSpec ==
  /\ LiveInit /\ [][LiveNext]_vars
  /\ WF_vars(LiveNext)
  /\ \A i \in 0..MaxOffset : SF_vars(SampleLastAt(i))

----------------------------------------------------------------------------
(* Properties *)

Returned == pc \in {"stats", "done"}
Built == pc \notin {"read", "create"}

\* the successors of key in ws, in order of occurrence
Occurrences(ws, k, key) ==
  LET offs == SelectSeq([n \in 1..Max(0, Len(ws) - k + 1) |-> n],
                        LAMBDA n : SubSeq(ws, n, n + k - 2) = key)
  IN  [m \in 1..Len(offs) |-> ws[offs[m] + k - 1]]

\* C1: for len(words) >= chain_length, the keys of create_database's result
\* are exactly the contexts words[i..i+k-2] for i in 0..len-k, every
\* successor list is non-empty, and the list of a context holds
\* words[i+k-1] for each of its offsets i, in order of occurrence (so the
\* (context, successor) pairs are the multiset of the width-k windows).
C1_SlidingWindows ==
  (Built /\ Len(words) >= chain_length) =>
     /\ DOMAIN db = { SubSeq(words, i + 1, i + chain_length - 1) :
                        i \in 0..(Len(words) - chain_length) }
     /\ \A key \in DOMAIN db :
          /\ Len(db[key]) >= 1
          /\ db[key] = Occurrences(words, chain_length, key)

C1_Witness ==
  /\ pc = "markov"
  /\ \E key \in DOMAIN db : Len(db[key]) >= 2 /\ db[key][1] # db[key][2]

MarkedCount(ws) == Cardinality({p \in 1..Len(ws) : endswith_nl(ws[p])})

\* C2: when do_markov returns with size >= 1, the number of words of the
\* accumulated output that end with the line break equals size.
C2_LineCountExact ==
  (Returned /\ size >= 1) => MarkedCount(generated) = size

\* C3: when no lookup missed and every visited context had one successor,
\* the output is the contiguous run of corpus words from the first word of
\* the start window through the last sampled word, joined by single spaces;
\* for [the, cat, sat\n, the, dog, ran\n], chain length 3, size 1 and start
\* (the, cat) the output is "the cat sat\n".
C3_ContiguousRun ==
  /\ (Returned /\ ~missed /\ ~branched) =>
        /\ generated = SubSeq(words, seed0 + 1, seed0 + iters + chain_length - 1)
        /\ output = join(SubSeq(words, seed0 + 1, seed0 + iters + chain_length - 1))
  /\ (/\ Returned
      /\ words = <<the, cat, sat \o nl, the, dog, ran \o nl>>
      /\ chain_length = 3 /\ size = 1 /\ seed0 = 0)
       => output = the \o sp \o cat \o sp \o sat \o nl

\* C4: a lookup that misses (the window has run into the end of the corpus)
\* is followed by the return of do_markov with current = size.
C4_DeadEndRecovery ==
  (pc = "lookup" /\ start \notin DOMAIN db) ~> (Returned /\ current = size)

C4_Witness == Returned /\ missed /\ current = size

\* C5: with size = 0 and len(words) >= chain_length, do_markov runs no loop
\* iteration, appends one word after the loop and returns a non-empty
\* string, without an error.
C5_ZeroLines ==
  (size = 0 /\ Len(words) >= chain_length /\ pc \notin {"read", "create", "markov", "loop"}) =>
     /\ pc # "error"
     /\ iters = 0
     /\ Len(generated) = 1
     /\ output # <<>>

\* C6: with fewer words than chain_length, create_database and do_markov
\* both end in an error: no empty model is returned and no loop is entered.
C6_ShortCorpusFailsFast ==
  (Built /\ Len(words) < chain_length) => (pc = "error" /\ err # "none")

\* C6 amended: with fewer words than chain_length, create_database returns
\* the empty model without an error, and do_markov ends in ValueError at its
\* first random_word call, before any loop iteration or retry.
C6_ShortCorpusAmended ==
  (Built /\ Len(words) < chain_length) =>
     /\ db = NoDb
     /\ iters = 0 /\ retries = 0 /\ ~missed
     /\ \/ pc = "markov" /\ err = "none"
        \/ pc = "error" /\ err = "ValueError"

C6_Witness ==
  pc = "error" /\ err = "ValueError" /\ words # <<>> /\ Len(words) < chain_length

\* the lines with at least two sub-tokens
QualifyingLines(lines) == SelectSeq(lines, LAMBDA l : Len(split(l)) >= 2)

RECURSIVE Flatten(_)
Flatten(ss) == IF ss = <<>> THEN <<>> ELSE Head(ss) \o Flatten(Tail(ss))

Unmarked(w) == IF endswith_nl(w) THEN SubSeq(w, 1, Len(w) - 1) ELSE w

\* the positions, in the concatenation, of the last element of each sequence
RECURSIVE EndPositions(_, _)
EndPositions(ss, base) ==
  IF ss = <<>> THEN {}
  ELSE {base + Len(Head(ss))} \cup EndPositions(Tail(ss), base + Len(Head(ss)))

\* C7: read_file returns the in-order concatenation of the sub-tokens of the
\* lines that have at least two sub-tokens; a word ends with the line break
\* iff it is the last sub-token of such a line, so there are as many marked
\* words as qualifying lines and a non-empty result ends with a marked word.
C7_ReadFile ==
  (pc # "read") =>
     LET q == QualifyingLines(file)
         toks == [n \in 1..Len(q) |-> split(q[n])]
     IN  /\ [p \in 1..Len(words) |-> Unmarked(words[p])] = Flatten(toks)
         /\ \A p \in 1..Len(words) :
              endswith_nl(words[p]) <=> p \in EndPositions(toks, 0)
         /\ MarkedCount(words) = Len(q)
         /\ words # <<>> => endswith_nl(words[Len(words)])

C7_Witness ==
  /\ pc = "create"
  /\ Len(file) = 2
  /\ Len(split(file[1])) = 1
  /\ Len(split(file[2])) = 3
  /\ Len(words) = 3

\* C8: the square of the reported standard deviation equals
\* sum_squares / num_keys.
C8_PopulationStdDev ==
  (pc = "done") =>
     RatEq(stats.std_squared, <<stats.sum_squares[1], stats.sum_squares[2] * stats.num_keys>>)

\* C9: a retry changes neither the accumulator nor the line counter; every
\* main-loop iteration appends one word, and on return the accumulator
\* holds (iterations + 1) words.
C9_RetriesKeepAccumulator ==
  /\ [](/\ pc \in {"loop", "lookup"} => Len(generated) = iters
        /\ Returned => Len(generated) = iters + 1)
  /\ [][(pc = "lookup" /\ start \notin DOMAIN db) =>
           (generated' = generated /\ current' = current)]_vars

C9_Witness == Returned /\ missed /\ iters >= 3 /\ Len(generated) = iters + 1

\* C10: for len(words) >= chain_length every window random_word can return
\* is a key of db: the initial lookup never misses, the offset
\* len(words)-chain_length+1 of the terminal window is never drawn, and a
\* retry loop calls random_word at most once.
C10_StartsAreKeys ==
  (Built /\ Len(words) >= chain_length) =>
     /\ \A s \in 0..(Len(words) - chain_length) :
          Window(words, chain_length, s) \in DOMAIN db
     /\ seed # -1 =>
          /\ seed \in 0..(Len(words) - chain_length)
          /\ start = Window(words, chain_length, seed)
          /\ start \in DOMAIN db
     /\ (pc = "lookup" /\ iters = 1) => start \in DOMAIN db
     /\ retries <= 1

C10_Witness == pc = "loop" /\ retries = 1 /\ missed /\ next_word # NoWord
====
